---- MODULE Spec2Model ----
(***************************************************************************)
(* Revenue driver tree: the calculation engine (client/src/lib/            *)
(* tree-engine.ts), the Zustand tree store with its undo/redo history      *)
(* (client/src/stores/tree-store.ts) and the collapse-aware visibility     *)
(* hook (client/src/hooks/useExpandCollapse.ts).                           *)
(*                                                                         *)
(* Node ids are modelled as positive integers, the null parentId as Null.  *)
(* Values are integers (the code's numbers are doubles; on the small       *)
(* integers used here sums and products are exact).  A JS Map is a         *)
(* sequence of <<key, value>> pairs in insertion order.                    *)
(***************************************************************************)
EXTENDS Integers, Sequences, FiniteSets, TLC

\* ------------------------------------------------------------------ bounds
MaxNodes == 4
MaxEdits == 2
MaxCapEdits == 52
MaxScenarioEdits == 3
MaxStatus == 10
MaxObjects == 14
MaxInFlight == 2
MaxRetryCount == 4
MaxRoundTrip == 3
MaxEvents == 3
MaxDeliveries == 3

\* ------------------------------------------------------- program constants
MAX_UNDO_STACK == 50
Null == 0

ComputeTypes == {"input", "sum", "product"}

\* ------------------------------------------------------------- JS Map model
RECURSIVE MapIndex(_, _, _)
MapIndex(m, k, i) ==
  IF i > Len(m) THEN 0
  ELSE IF m[i][1] = k THEN i
  ELSE MapIndex(m, k, i + 1)

MapHas(m, k) == MapIndex(m, k, 1) # 0

MapGet(m, k) == m[MapIndex(m, k, 1)][2]

MapSet(m, k, v) ==
  IF MapHas(m, k)
    THEN [m EXCEPT ![MapIndex(m, k, 1)] = <<k, v>>]
    ELSE Append(m, <<k, v>>)

MapValues(m) == [i \in 1..Len(m) |-> m[i][2]]

RECURSIVE NewNodeMap(_, _, _)
NewNodeMap(ns, i, m) ==
  IF i > Len(ns) THEN m
  ELSE NewNodeMap(ns, i + 1, MapSet(m, ns[i].id, ns[i]))

\* ---------------------------------------------------------------- engine
RECURSIVE BuildChildren(_, _, _)
BuildChildren(ns, i, m) ==
  IF i > Len(ns) THEN m
  ELSE LET node == ns[i] IN
    IF node.parentId # Null
      THEN IF MapHas(m, node.parentId)
             THEN BuildChildren(ns, i + 1,
                    MapSet(m, node.parentId, Append(MapGet(m, node.parentId), node.id)))
             ELSE BuildChildren(ns, i + 1, MapSet(m, node.parentId, <<node.id>>))
      ELSE BuildChildren(ns, i + 1, m)

buildChildrenMap(ns) == BuildChildren(ns, 1, <<>>)

\* Array.prototype.sort with (a, b) => a.order - b.order: a stable sort.
RECURSIVE InsertByOrder(_, _)
InsertByOrder(sorted, x) ==
  IF sorted = <<>> THEN <<x>>
  ELSE IF sorted[Len(sorted)].order <= x.order THEN Append(sorted, x)
  ELSE Append(InsertByOrder(SubSeq(sorted, 1, Len(sorted) - 1), x), sorted[Len(sorted)])

RECURSIVE SortByOrder(_, _, _)
SortByOrder(xs, i, acc) ==
  IF i > Len(xs) THEN acc
  ELSE SortByOrder(xs, i + 1, InsertByOrder(acc, xs[i]))

\* Variant: negative child values are left out of the sum.
RECURSIVE ReduceSumNonNegative(_, _, _)
ReduceSumNonNegative(vs, i, sum) ==
  IF i > Len(vs) THEN sum
  ELSE ReduceSumNonNegative(vs, i + 1, IF vs[i] < 0 THEN sum ELSE sum + vs[i])

RECURSIVE ReduceSum(_, _, _)
ReduceSum(vs, i, sum) ==
  IF i > Len(vs) THEN sum ELSE ReduceSum(vs, i + 1, sum + vs[i])

\* Variant: falsy (zero) child values are left out of the product.
RECURSIVE ReduceProductTruthy(_, _, _)
ReduceProductTruthy(vs, i, prod) ==
  IF i > Len(vs) THEN prod
  ELSE ReduceProductTruthy(vs, i + 1, IF vs[i] = 0 THEN prod ELSE prod * vs[i])

RECURSIVE ReduceProduct(_, _, _)
ReduceProduct(vs, i, prod) ==
  IF i > Len(vs) THEN prod ELSE ReduceProduct(vs, i + 1, prod * vs[i])

ChildValues(nodeMap, childrenMap, currentId) ==
  LET childIds == IF MapHas(childrenMap, currentId)
                    THEN MapGet(childrenMap, currentId) ELSE <<>>
      children == [i \in 1..Len(childIds) |-> MapGet(nodeMap, childIds[i])]
      sorted   == SortByOrder(children, 1, <<>>)
  IN [i \in 1..Len(sorted) |-> sorted[i].value]

\* Variant: product nodes keep their value.
RecomputeSumOnly(node, childValues) ==
  IF Len(childValues) > 0
    THEN IF node.computeType = "sum" THEN ReduceSum(childValues, 1, 0)
         ELSE node.value
    ELSE node.value

Recompute(node, childValues) ==
  IF Len(childValues) > 0
    THEN IF node.computeType = "sum" THEN ReduceSum(childValues, 1, 0)
         ELSE IF node.computeType = "product" THEN ReduceProduct(childValues, 1, 1)
         ELSE node.value
    ELSE node.value

\* Variant: a pinned ancestor is skipped but the walk continues above it.
RECURSIVE WalkPastPins(_, _, _)
WalkPastPins(nodeMap, childrenMap, currentId) ==
  IF currentId = Null THEN nodeMap
  ELSE IF ~MapHas(nodeMap, currentId) THEN nodeMap
  ELSE LET node == MapGet(nodeMap, currentId) IN
    IF node.pinned THEN WalkPastPins(nodeMap, childrenMap, node.parentId)
    ELSE LET value == Recompute(node, ChildValues(nodeMap, childrenMap, currentId))
         IN WalkPastPins(MapSet(nodeMap, currentId, [node EXCEPT !.value = value]),
                         childrenMap, node.parentId)

\* Variant: the walk recomputes pinned ancestors too.
RECURSIVE WalkThroughPins(_, _, _)
WalkThroughPins(nodeMap, childrenMap, currentId) ==
  IF currentId = Null THEN nodeMap
  ELSE IF ~MapHas(nodeMap, currentId) THEN nodeMap
  ELSE LET node  == MapGet(nodeMap, currentId)
           value == Recompute(node, ChildValues(nodeMap, childrenMap, currentId))
       IN WalkThroughPins(MapSet(nodeMap, currentId, [node EXCEPT !.value = value]),
                          childrenMap, node.parentId)

\* Variant: only the direct parent is recomputed.
WalkOneLevel(nodeMap, childrenMap, currentId) ==
  IF currentId = Null THEN nodeMap
  ELSE IF ~MapHas(nodeMap, currentId) THEN nodeMap
  ELSE LET node == MapGet(nodeMap, currentId) IN
    IF node.pinned THEN nodeMap
    ELSE LET value == Recompute(node, ChildValues(nodeMap, childrenMap, currentId))
         IN MapSet(nodeMap, currentId, [node EXCEPT !.value = value])

RECURSIVE Walk(_, _, _)
Walk(nodeMap, childrenMap, currentId) ==
  IF currentId = Null THEN nodeMap
  ELSE IF ~MapHas(nodeMap, currentId) THEN nodeMap
  ELSE LET node == MapGet(nodeMap, currentId) IN
    IF node.pinned THEN nodeMap
    ELSE LET value == Recompute(node, ChildValues(nodeMap, childrenMap, currentId))
         IN Walk(MapSet(nodeMap, currentId, [node EXCEPT !.value = value]),
                 childrenMap, node.parentId)

recalculate(ns, changedNodeId) ==
  LET nodeMap     == NewNodeMap(ns, 1, <<>>)
      childrenMap == buildChildrenMap(ns)
  IN IF ~MapHas(nodeMap, changedNodeId) THEN ns
     ELSE MapValues(Walk(nodeMap, childrenMap, MapGet(nodeMap, changedNodeId).parentId))

\* Variant: a value equal to its target is not yet on track.
getStatusStrict(value, targetValue) ==
  IF value > targetValue THEN "on-track"
  ELSE IF 10 * value >= 9 * targetValue THEN "at-risk"
  ELSE "behind"

\* value >= targetValue * 0.9 on integers is 10 * value >= 9 * targetValue.
getStatus(value, targetValue) ==
  IF value >= targetValue THEN "on-track"
  ELSE IF 10 * value >= 9 * targetValue THEN "at-risk"
  ELSE "behind"

\* ------------------------------------------------------------ visibility
RECURSIVE NewParentMap(_, _, _)
NewParentMap(ns, i, m) ==
  IF i > Len(ns) THEN m
  ELSE NewParentMap(ns, i + 1, MapSet(m, ns[i].id, ns[i].parentId))

buildParentMap(ns) == NewParentMap(ns, 1, <<>>)

\* Variant: the id of the child is added, not the id of its parent.
buildBranchNodeIdsOfChildren(ns) ==
  {ns[j].id : j \in {i \in DOMAIN ns : ns[i].parentId # Null}}

\* The set of ids that some node names as its parent.
buildBranchNodeIds(ns) ==
  {ns[j].parentId : j \in {i \in DOMAIN ns : ns[i].parentId # Null}}

\* Variant: only the direct parent's collapsed flag hides a node.
HiddenByParentOnly(parentMap, collapsedIds, currentId) ==
  currentId # Null /\ currentId \in collapsedIds

\* Variant: an ancestor id the collection lacks hides the node.
RECURSIVE HiddenWhenUnknown(_, _, _)
HiddenWhenUnknown(parentMap, collapsedIds, currentId) ==
  IF currentId = Null THEN FALSE
  ELSE IF currentId \in collapsedIds THEN TRUE
  ELSE IF ~MapHas(parentMap, currentId) THEN TRUE
  ELSE HiddenWhenUnknown(parentMap, collapsedIds, MapGet(parentMap, currentId))

\* The while loop over the ancestors of one node: TRUE when one is collapsed.
RECURSIVE Hidden(_, _, _)
Hidden(parentMap, collapsedIds, currentId) ==
  IF currentId = Null THEN FALSE
  ELSE IF currentId \in collapsedIds THEN TRUE
  ELSE Hidden(parentMap, collapsedIds,
              IF MapHas(parentMap, currentId) THEN MapGet(parentMap, currentId) ELSE Null)

\* Variant: the walk starts at the node itself.
useExpandCollapseFromSelf(ns) ==
  LET parentMap    == buildParentMap(ns)
      collapsedIds == {ns[j].id : j \in {i \in DOMAIN ns : ns[i].collapsed}}
  IN {ns[j].id : j \in {i \in DOMAIN ns : ~Hidden(parentMap, collapsedIds, ns[i].id)}}

\* The set of visible node ids.
useExpandCollapse(ns) ==
  LET parentMap    == buildParentMap(ns)
      collapsedIds == {ns[j].id : j \in {i \in DOMAIN ns : ns[i].collapsed}}
  IN {ns[j].id : j \in {i \in DOMAIN ns : ~Hidden(parentMap, collapsedIds, ns[i].parentId)}}

\* ----------------------------------------------------------------- store
VARIABLES nodes, selectedNodeId, undoStack, redoStack,
          recalculatingNodeDepths, rippleClearTimer, timers, engineCall

\* The same store with object identity: heap[r] is the node object with
\* reference r; an array of nodes is a sequence of references.
VARIABLES heap, nodesRef, undoStackRef, redoStackRef

storeVars == <<nodes, selectedNodeId, undoStack, redoStack,
               recalculatingNodeDepths, rippleClearTimer, timers, engineCall>>

heapVars == <<heap, nodesRef, undoStackRef, redoStackRef>>

\* The auto-save hook mounted on the store's nodes: its state and refs, the
\* pending timeouts (saveTimers), the PUT requests awaiting their response
\* (inFlight, each the collection it carries), whether the last effect run
\* returned a cleanup, and two records of the past: the collection of the
\* most recent successful PUT and the failed attempts since the last
\* scheduled save or success.
VARIABLES saveStatus, timerRef, retryTimerRef, retryCount, isFirstRender,
          latestNodesRef, saveTimers, inFlight, cleanup, lastPut, failedInRow

saveVars == <<saveStatus, timerRef, retryTimerRef, retryCount, isFirstRender,
              latestNodesRef, saveTimers, inFlight, cleanup, lastPut, failedInRow>>

\* The server's Clerk webhook: the users table (the row of the one Clerk user,
\* Null when there is none), the event ids in processed_events, the requests
\* the handler has received with the statement each one awaits, and how often
\* each event id's statement inserted, rewrote or deleted a users row.
VARIABLES users, processedEvents, requests, applied

hookVars == <<users, processedEvents, requests, applied>>

vars == <<storeVars, heapVars, saveVars, hookVars>>

\* The arguments and the result of the engine call made by the most recent
\* updateNodeValue (its locals updatedNodes and recalculated), and whether
\* canRedo held when that call was made.
NoCall == [nodeId |-> Null, updatedNodes |-> <<>>, recalculated |-> <<>>, canRedo |-> FALSE]

\* Variant: no trimming.
SliceNothing(s, n) == s

\* Variant: array.slice(0, n), the newest entries are dropped.
SliceFirst(s, n) == IF Len(s) <= n THEN s ELSE SubSeq(s, 1, n)

\* array.slice(-n)
SliceLast(s, n) == IF Len(s) <= n THEN s ELSE SubSeq(s, Len(s) - n + 1, Len(s))

\* array.slice(0, -1)
DropLast(s) == SubSeq(s, 1, Len(s) - 1)

\* Variant: the value of a pinned node is left as it is.
SetValueUnlessPinned(ns, nodeId, value) ==
  [i \in 1..Len(ns) |->
     IF ns[i].id = nodeId /\ ~ns[i].pinned THEN [ns[i] EXCEPT !.value = value] ELSE ns[i]]

SetValue(ns, nodeId, value) ==
  [i \in 1..Len(ns) |-> IF ns[i].id = nodeId THEN [ns[i] EXCEPT !.value = value] ELSE ns[i]]

\* The ancestor depth map built for the ripple animation: <<depths, depth>>.
RECURSIVE RippleWalk(_, _, _, _)
RippleWalk(nodeMap, depths, depth, currentId) ==
  IF currentId = Null THEN <<depths, depth>>
  ELSE IF ~MapHas(nodeMap, currentId) THEN <<depths, depth>>
  ELSE LET ancestor == MapGet(nodeMap, currentId) IN
    IF ancestor.pinned THEN <<depths, depth>>
    ELSE RippleWalk(nodeMap, MapSet(depths, currentId, depth), depth + 1, ancestor.parentId)

\* Variant: the ripple walk starts at the edited node itself.
RippleDepthsFromSelf(ns, nodeId) ==
  LET nodeMap == NewNodeMap(ns, 1, <<>>)
  IN RippleWalk(nodeMap, <<>>, 1, IF MapHas(nodeMap, nodeId) THEN nodeId ELSE Null)[1]

RippleDepths(ns, nodeId) ==
  LET nodeMap == NewNodeMap(ns, 1, <<>>)
      start   == IF MapHas(nodeMap, nodeId) THEN MapGet(nodeMap, nodeId).parentId ELSE Null
  IN RippleWalk(nodeMap, <<>>, 1, start)[1]

\* setTimeout returns a handle that is not pending.
NewTimer(pending) == CHOOSE h \in 1..(Cardinality(pending) + 1) : h \notin pending

\* The store's initial state without the node collection.
FieldsInit ==
  /\ selectedNodeId = Null
  /\ undoStack = <<>>
  /\ redoStack = <<>>
  /\ recalculatingNodeDepths = <<>>
  /\ rippleClearTimer = Null
  /\ timers = {}
  /\ engineCall = NoCall

\* No node objects are tracked.
NoObjects ==
  /\ heap = <<>>
  /\ nodesRef = <<>>
  /\ undoStackRef = <<>>
  /\ redoStackRef = <<>>

\* The hook before its first render.
SaveInit ==
  /\ saveStatus = "saved"
  /\ timerRef = Null
  /\ retryTimerRef = Null
  /\ retryCount = 0
  /\ isFirstRender = TRUE
  /\ latestNodesRef = <<>>
  /\ saveTimers = {}
  /\ inFlight = <<>>
  /\ cleanup = FALSE
  /\ lastPut = [done |-> FALSE, nodes |-> <<>>]
  /\ failedInRow = 0

\* Empty tables and no request.
HookInit ==
  /\ users = Null
  /\ processedEvents = {}
  /\ requests = <<>>
  /\ applied = [e \in 1..MaxEvents |-> 0]

HistoryInit == FieldsInit /\ NoObjects /\ SaveInit /\ HookInit

StoreInit == nodes = <<>> /\ HistoryInit

\* Variant: loading a collection keeps the undo stack.
setNodesKeepingUndo(ns) ==
  /\ nodes' = ns
  /\ undoStack' = undoStack
  /\ redoStack' = <<>>
  /\ UNCHANGED <<selectedNodeId, recalculatingNodeDepths, rippleClearTimer, timers, engineCall, heapVars, saveVars, hookVars>>

setNodes(ns) ==
  /\ nodes' = ns
  /\ undoStack' = <<>>
  /\ redoStack' = <<>>
  /\ UNCHANGED <<selectedNodeId, recalculatingNodeDepths, rippleClearTimer, timers, engineCall, heapVars, saveVars, hookVars>>

\* Variant: the edit leaves the redo stack as it is.
updateNodeValueKeepingRedo(nodeId, value) ==
  LET newUndoStack == SliceLast(Append(undoStack, nodes), MAX_UNDO_STACK)
      updatedNodes == SetValue(nodes, nodeId, value)
      recalculated == recalculate(updatedNodes, nodeId)
      cancelled    == timers \ {rippleClearTimer}
      handle       == NewTimer(cancelled)
  IN /\ nodes' = recalculated
     /\ undoStack' = newUndoStack
     /\ redoStack' = redoStack
     /\ recalculatingNodeDepths' = RippleDepths(nodes, nodeId)
     /\ timers' = cancelled \cup {handle}
     /\ rippleClearTimer' = handle
     /\ engineCall' = [nodeId |-> nodeId, updatedNodes |-> updatedNodes,
                       recalculated |-> recalculated,
                       canRedo |-> Len(redoStack) > 0]
     /\ UNCHANGED <<selectedNodeId, heapVars, saveVars, hookVars>>

\* Variant: the edit schedules its timer without cancelling the previous one.
updateNodeValueNoCancel(nodeId, value) ==
  LET newUndoStack == SliceLast(Append(undoStack, nodes), MAX_UNDO_STACK)
      updatedNodes == SetValue(nodes, nodeId, value)
      recalculated == recalculate(updatedNodes, nodeId)
      handle       == NewTimer(timers)
  IN /\ nodes' = recalculated
     /\ undoStack' = newUndoStack
     /\ redoStack' = <<>>
     /\ recalculatingNodeDepths' = RippleDepths(nodes, nodeId)
     /\ timers' = timers \cup {handle}
     /\ rippleClearTimer' = handle
     /\ engineCall' = [nodeId |-> nodeId, updatedNodes |-> updatedNodes,
                       recalculated |-> recalculated,
                       canRedo |-> Len(redoStack) > 0]
     /\ UNCHANGED <<selectedNodeId, heapVars, saveVars, hookVars>>

updateNodeValue(nodeId, value) ==
  LET newUndoStack == SliceLast(Append(undoStack, nodes), MAX_UNDO_STACK)
      updatedNodes == SetValue(nodes, nodeId, value)
      recalculated == recalculate(updatedNodes, nodeId)
      cancelled    == timers \ {rippleClearTimer}
      handle       == NewTimer(cancelled)
  IN /\ nodes' = recalculated
     /\ undoStack' = newUndoStack
     /\ redoStack' = <<>>
     /\ recalculatingNodeDepths' = RippleDepths(nodes, nodeId)
     /\ timers' = cancelled \cup {handle}
     /\ rippleClearTimer' = handle
     /\ engineCall' = [nodeId |-> nodeId, updatedNodes |-> updatedNodes,
                       recalculated |-> recalculated,
                       canRedo |-> Len(redoStack) > 0]
     /\ UNCHANGED <<selectedNodeId, heapVars, saveVars, hookVars>>

\* Variant: the timeout callback leaves the ripple set as it is.
RippleClearKeepingDepths(handle) ==
  /\ handle \in timers
  /\ timers' = timers \ {handle}
  /\ UNCHANGED <<nodes, selectedNodeId, undoStack, redoStack, recalculatingNodeDepths,
                 rippleClearTimer, engineCall, heapVars, saveVars, hookVars>>

\* The ripple-clear timeout callback.
RippleClear(handle) ==
  /\ handle \in timers
  /\ timers' = timers \ {handle}
  /\ recalculatingNodeDepths' = <<>>
  /\ UNCHANGED <<nodes, selectedNodeId, undoStack, redoStack, rippleClearTimer, engineCall, heapVars, saveVars, hookVars>>

\* Variant: toggling the pin re-runs the recalculation from the toggled node.
togglePinRecalculating(nodeId) ==
  /\ nodes' = recalculate([i \in 1..Len(nodes) |->
                             IF nodes[i].id = nodeId
                               THEN [nodes[i] EXCEPT !.pinned = ~nodes[i].pinned]
                               ELSE nodes[i]], nodeId)
  /\ UNCHANGED <<selectedNodeId, undoStack, redoStack,
                 recalculatingNodeDepths, rippleClearTimer, timers, engineCall, heapVars, saveVars, hookVars>>

togglePin(nodeId) ==
  /\ nodes' = [i \in 1..Len(nodes) |->
                 IF nodes[i].id = nodeId
                   THEN [nodes[i] EXCEPT !.pinned = ~nodes[i].pinned] ELSE nodes[i]]
  /\ UNCHANGED <<selectedNodeId, undoStack, redoStack,
                 recalculatingNodeDepths, rippleClearTimer, timers, engineCall, heapVars, saveVars, hookVars>>

toggleCollapse(nodeId) ==
  /\ nodes' = [i \in 1..Len(nodes) |->
                 IF nodes[i].id = nodeId
                   THEN [nodes[i] EXCEPT !.collapsed = ~nodes[i].collapsed] ELSE nodes[i]]
  /\ UNCHANGED <<selectedNodeId, undoStack, redoStack,
                 recalculatingNodeDepths, rippleClearTimer, timers, engineCall, heapVars, saveVars, hookVars>>

selectNode(nodeId) ==
  /\ selectedNodeId' = nodeId
  /\ UNCHANGED <<nodes, undoStack, redoStack,
                 recalculatingNodeDepths, rippleClearTimer, timers, engineCall, heapVars, saveVars, hookVars>>

\* Variant: undo takes the oldest snapshot.
undoResultOldest(ns, us, rs) ==
  IF Len(us) = 0
    THEN [nodes |-> ns, undoStack |-> us, redoStack |-> rs]
    ELSE [nodes |-> us[1], undoStack |-> Tail(us), redoStack |-> Append(rs, ns)]

\* Variant: undo does not push the current collection onto the redo stack.
undoResultNoPush(ns, us, rs) ==
  IF Len(us) = 0
    THEN [nodes |-> ns, undoStack |-> us, redoStack |-> rs]
    ELSE [nodes |-> us[Len(us)], undoStack |-> DropLast(us), redoStack |-> rs]

\* What undo() leaves in nodes, undoStack and redoStack.
undoResult(ns, us, rs) ==
  IF Len(us) = 0
    THEN [nodes |-> ns, undoStack |-> us, redoStack |-> rs]
    ELSE [nodes |-> us[Len(us)], undoStack |-> DropLast(us), redoStack |-> Append(rs, ns)]

undo ==
  LET r == undoResult(nodes, undoStack, redoStack)
  IN /\ nodes' = r.nodes
     /\ undoStack' = r.undoStack
     /\ redoStack' = r.redoStack
     /\ UNCHANGED <<selectedNodeId, recalculatingNodeDepths, rippleClearTimer, timers, engineCall, heapVars, saveVars, hookVars>>

\* Variant: redo does not push the current collection onto the undo stack.
redoResultNoPush(ns, us, rs) ==
  IF Len(rs) = 0
    THEN [nodes |-> ns, undoStack |-> us, redoStack |-> rs]
    ELSE [nodes |-> rs[Len(rs)], undoStack |-> us, redoStack |-> DropLast(rs)]

\* Variant: redo takes the oldest undone collection.
redoResultOldest(ns, us, rs) ==
  IF Len(rs) = 0
    THEN [nodes |-> ns, undoStack |-> us, redoStack |-> rs]
    ELSE [nodes |-> rs[1], undoStack |-> Append(us, ns), redoStack |-> Tail(rs)]

\* What redo() leaves in nodes, undoStack and redoStack.
redoResult(ns, us, rs) ==
  IF Len(rs) = 0
    THEN [nodes |-> ns, undoStack |-> us, redoStack |-> rs]
    ELSE [nodes |-> rs[Len(rs)], undoStack |-> Append(us, ns), redoStack |-> DropLast(rs)]

redo ==
  LET r == redoResult(nodes, undoStack, redoStack)
  IN /\ nodes' = r.nodes
     /\ undoStack' = r.undoStack
     /\ redoStack' = r.redoStack
     /\ UNCHANGED <<selectedNodeId, recalculatingNodeDepths, rippleClearTimer, timers, engineCall, heapVars, saveVars, hookVars>>

\* ------------------------------------------ the store with object identity
\* The node objects an array of references holds.
Deref(h, refs) == [i \in DOMAIN refs |-> h[refs[i]]]

\* nodes.map((n) => n.id === nodeId ? {...n, ...} : n): a new object (with
\* the fields recs[i]) for every node with the id, the same object otherwise.
RECURSIVE MapMatching(_, _, _, _, _)
MapMatching(h, refs, recs, nodeId, out) ==
  LET i == Len(out) + 1 IN
    IF i > Len(refs) THEN [heap |-> h, nodes |-> out]
    ELSE IF h[refs[i]].id = nodeId
      THEN MapMatching(Append(h, recs[i]), refs, recs, nodeId, Append(out, Len(h) + 1))
      ELSE MapMatching(h, refs, recs, nodeId, Append(out, refs[i]))

\* new Map(nodes.map((n) => [n.id, {...n}])): id -> reference of a new copy.
RECURSIVE NewCloneMap(_, _, _, _)
NewCloneMap(h, refs, i, m) ==
  IF i > Len(refs) THEN m
  ELSE NewCloneMap(h, refs, i + 1, MapSet(m, h[refs[i]].id, Len(h) + i))

\* The node map with the objects in place of their references.
ObjectMap(h, m) == [i \in 1..Len(m) |-> <<m[i][1], h[m[i][2]]>>]

\* The upward walk: node.value = ... assigns to the object in the heap.
RECURSIVE WalkRef(_, _, _, _)
WalkRef(h, nodeMap, childrenMap, currentId) ==
  IF currentId = Null THEN h
  ELSE IF ~MapHas(nodeMap, currentId) THEN h
  ELSE LET ref  == MapGet(nodeMap, currentId)
           node == h[ref]
       IN IF node.pinned THEN h
          ELSE LET value == Recompute(node, ChildValues(ObjectMap(h, nodeMap), childrenMap, currentId))
               IN WalkRef([h EXCEPT ![ref].value = value], nodeMap, childrenMap, node.parentId)

\* Variant: the node map holds the input objects themselves, not copies.
recalculateRefInPlace(h, refs, changedNodeId) ==
  LET nodeMap     == [i \in DOMAIN refs |-> <<h[refs[i]].id, refs[i]>>]
      childrenMap == buildChildrenMap(Deref(h, refs))
  IN IF ~MapHas(nodeMap, changedNodeId) THEN [heap |-> h, nodes |-> refs]
     ELSE [heap  |-> WalkRef(h, nodeMap, childrenMap, h[MapGet(nodeMap, changedNodeId)].parentId),
           nodes |-> MapValues(nodeMap)]

\* recalculate on references: the heap after the call and the returned array.
recalculateRef(h, refs, changedNodeId) ==
  LET cloned      == h \o Deref(h, refs)
      nodeMap     == NewCloneMap(h, refs, 1, <<>>)
      childrenMap == buildChildrenMap(Deref(h, refs))
  IN IF ~MapHas(nodeMap, changedNodeId) THEN [heap |-> cloned, nodes |-> refs]
     ELSE [heap  |-> WalkRef(cloned, nodeMap, childrenMap,
                             cloned[MapGet(nodeMap, changedNodeId)].parentId),
           nodes |-> MapValues(nodeMap)]

updateNodeValueRef(nodeId, value) ==
  LET newUndoStack == SliceLast(Append(undoStackRef, nodesRef), MAX_UNDO_STACK)
      updatedNodes == MapMatching(heap, nodesRef,
                                  SetValue(Deref(heap, nodesRef), nodeId, value), nodeId, <<>>)
      recalculated == recalculateRef(updatedNodes.heap, updatedNodes.nodes, nodeId)
  IN /\ heap' = recalculated.heap
     /\ nodesRef' = recalculated.nodes
     /\ undoStackRef' = newUndoStack
     /\ redoStackRef' = <<>>
     /\ UNCHANGED <<storeVars, saveVars, hookVars>>

togglePinRef(nodeId) ==
  LET toggled == [i \in DOMAIN nodesRef |->
                    [heap[nodesRef[i]] EXCEPT !.pinned = ~heap[nodesRef[i]].pinned]]
      mapped  == MapMatching(heap, nodesRef, toggled, nodeId, <<>>)
  IN /\ heap' = mapped.heap
     /\ nodesRef' = mapped.nodes
     /\ UNCHANGED <<undoStackRef, redoStackRef, storeVars, saveVars, hookVars>>

toggleCollapseRef(nodeId) ==
  LET toggled == [i \in DOMAIN nodesRef |->
                    [heap[nodesRef[i]] EXCEPT !.collapsed = ~heap[nodesRef[i]].collapsed]]
      mapped  == MapMatching(heap, nodesRef, toggled, nodeId, <<>>)
  IN /\ heap' = mapped.heap
     /\ nodesRef' = mapped.nodes
     /\ UNCHANGED <<undoStackRef, redoStackRef, storeVars, saveVars, hookVars>>

undoRef ==
  LET r == undoResult(nodesRef, undoStackRef, redoStackRef)
  IN /\ nodesRef' = r.nodes
     /\ undoStackRef' = r.undoStack
     /\ redoStackRef' = r.redoStack
     /\ UNCHANGED <<heap, storeVars, saveVars, hookVars>>

redoRef ==
  LET r == redoResult(nodesRef, undoStackRef, redoStackRef)
  IN /\ nodesRef' = r.nodes
     /\ undoStackRef' = r.undoStack
     /\ redoStackRef' = r.redoStack
     /\ UNCHANGED <<heap, storeVars, saveVars, hookVars>>

\* --------------------------------------------------------- auto-save hook
\* Remove element i of a sequence.
RemoveAt(q, i) == SubSeq(q, 1, i - 1) \o SubSeq(q, i + 1, Len(q))

\* A render of the hook with a new nodes array (or the first render), and the
\* effect that follows it: the previous run's cleanup, then the effect body.
useAutoSave ==
  LET afterCleanup == IF cleanup THEN saveTimers \ {timerRef, retryTimerRef} ELSE saveTimers
      cleared      == afterCleanup \ {timerRef, retryTimerRef}
      handle       == NewTimer(cleared)
  IN /\ isFirstRender \/ nodes # latestNodesRef
     /\ latestNodesRef' = nodes
     /\ IF isFirstRender
          THEN /\ isFirstRender' = FALSE
               /\ saveTimers' = afterCleanup
               /\ cleanup' = FALSE
               /\ UNCHANGED <<saveStatus, timerRef, failedInRow>>
          ELSE IF Len(nodes) = 0
            THEN /\ saveTimers' = afterCleanup
                 /\ cleanup' = FALSE
                 /\ UNCHANGED <<isFirstRender, saveStatus, timerRef, failedInRow>>
            ELSE /\ saveStatus' = "saving"
                 /\ saveTimers' = cleared \cup {handle}
                 /\ timerRef' = handle
                 /\ cleanup' = TRUE
                 /\ failedInRow' = 0
                 /\ UNCHANGED isFirstRender
     /\ UNCHANGED <<retryTimerRef, retryCount, inFlight, lastPut, storeVars, heapVars, hookVars>>

\* A timeout fires: doSave sends the PUT with the latest nodes.
doSave(handle) ==
  /\ handle \in saveTimers
  /\ saveTimers' = saveTimers \ {handle}
  /\ inFlight' = Append(inFlight, latestNodesRef)
  /\ UNCHANGED <<saveStatus, timerRef, retryTimerRef, retryCount, isFirstRender,
                 latestNodesRef, cleanup, lastPut, failedInRow, storeVars, heapVars, hookVars>>

\* The PUT resolves: the rest of doSave's try block.
doSaveResolved(i) ==
  /\ i \in DOMAIN inFlight
  /\ inFlight' = RemoveAt(inFlight, i)
  /\ saveStatus' = "saved"
  /\ retryCount' = 0
  /\ lastPut' = [done |-> TRUE, nodes |-> inFlight[i]]
  /\ failedInRow' = 0
  /\ UNCHANGED <<timerRef, retryTimerRef, isFirstRender, latestNodesRef,
                 saveTimers, cleanup, storeVars, heapVars, hookVars>>

\* The PUT rejects: doSave's catch block.
doSaveRejected(i) ==
  /\ i \in DOMAIN inFlight
  /\ inFlight' = RemoveAt(inFlight, i)
  /\ retryCount' = retryCount + 1
  /\ failedInRow' = failedInRow + 1
  /\ IF retryCount + 1 < 3
       THEN LET handle == NewTimer(saveTimers)
            IN /\ retryTimerRef' = handle
               /\ saveTimers' = saveTimers \cup {handle}
               /\ UNCHANGED saveStatus
       ELSE /\ saveStatus' = "error"
            /\ UNCHANGED <<retryTimerRef, saveTimers>>
  /\ UNCHANGED <<timerRef, isFirstRender, latestNodesRef, cleanup, lastPut,
                 storeVars, heapVars, hookVars>>

\* ----------------------------------------------------------- Clerk webhook
\* event.type of the event with id e; the event's payload is e itself.
EventType(e) ==
  CASE e % 4 = 1 -> "user.created"
    [] e % 4 = 2 -> "user.updated"
    [] e % 4 = 3 -> "user.deleted"
    [] OTHER     -> "session.created"

Respond(r, status, deduplicated) ==
  [r EXCEPT !.pc = "done", !.status = status, !.deduplicated = deduplicated]

\* A request arrives and its signature is verified; known records whether
\* the event id was marked processed when the request arrived.
handleClerkWebhook(e, valid) ==
  /\ requests' = Append(requests,
       IF valid
         THEN [eventId |-> e, pc |-> "select", status |-> 0, deduplicated |-> FALSE,
               known |-> e \in processedEvents]
         ELSE [eventId |-> e, pc |-> "done", status |-> 400, deduplicated |-> FALSE,
               known |-> e \in processedEvents])
  /\ UNCHANGED <<users, processedEvents, applied, storeVars, heapVars, saveVars>>

\* The select on processed_events returns.
idempotencyCheck(d) ==
  /\ requests[d].pc = "select"
  /\ requests' = [requests EXCEPT ![d] =
       IF requests[d].eventId \in processedEvents
         THEN Respond(requests[d], 200, TRUE)
         ELSE [requests[d] EXCEPT !.pc = "apply"]]
  /\ UNCHANGED <<users, processedEvents, applied, storeVars, heapVars, saveVars>>

\* The statement of the event's case runs; clerk_user_id is unique, so the
\* insert of an existing user throws.
applyEvent(d) ==
  LET e == requests[d].eventId IN
  /\ requests[d].pc = "apply"
  /\ IF EventType(e) = "user.created" /\ users # Null
       THEN /\ requests' = [requests EXCEPT ![d] = Respond(requests[d], 500, FALSE)]
            /\ UNCHANGED <<users, applied>>
       ELSE /\ requests' = [requests EXCEPT ![d].pc = "mark"]
            /\ users' = CASE EventType(e) = "user.created" -> e
                           [] EventType(e) = "user.updated" -> IF users = Null THEN Null ELSE e
                           [] EventType(e) = "user.deleted" -> Null
                           [] OTHER -> users
            /\ applied' = IF \/ EventType(e) = "user.created"
                              \/ (EventType(e) \in {"user.updated", "user.deleted"} /\ users # Null)
                             THEN [applied EXCEPT ![e] = @ + 1] ELSE applied
  /\ UNCHANGED <<processedEvents, storeVars, heapVars, saveVars>>

\* The insert into processed_events runs; event_id is the primary key, so a
\* second insert of the same id throws.
markProcessed(d) ==
  LET e == requests[d].eventId IN
  /\ requests[d].pc = "mark"
  /\ IF e \in processedEvents
       THEN /\ requests' = [requests EXCEPT ![d] = Respond(requests[d], 500, FALSE)]
            /\ UNCHANGED processedEvents
       ELSE /\ requests' = [requests EXCEPT ![d] = Respond(requests[d], 200, FALSE)]
            /\ processedEvents' = processedEvents \cup {e}
  /\ UNCHANGED <<users, applied, storeVars, heapVars, saveVars>>

\* ------------------------------------------------------------- tree inputs
NodeIds == 1..MaxNodes

\* An id that no loaded collection contains.
AbsentId == MaxNodes + 1

\* parentId per node: node 1 is the root, every other parent has a smaller id.
ParentVecs(n) ==
  {p \in [1..n -> 0..(n - 1)] : p[1] = Null /\ \A i \in 2..n : p[i] \in 1..(i - 1)}

IsLeaf(p, i) == \A j \in DOMAIN p : p[j] # i

InitValue(i) == ((5 * i) % 7) - 2

MkNode(n, p, ct, pin, i) ==
  [id |-> i, parentId |-> p[i], name |-> "node", value |-> InitValue(i),
   targetValue |-> 10, type |-> "currency", computeType |-> ct[i],
   pinned |-> i \in pin, order |-> n - i, collapsed |-> FALSE]

MkTree(n, p, ct, pin) == [i \in 1..n |-> MkNode(n, p, ct, pin, i)]

\* ------------------------------------------------- the store in a session
\* Trees a session loads: a chain root -> 2 -> ... -> MaxNodes and a star.
ChainTree ==
  MkTree(MaxNodes, [i \in NodeIds |-> i - 1],
         [i \in NodeIds |-> IF i = MaxNodes THEN "input"
                            ELSE IF i % 2 = 1 THEN "sum" ELSE "product"], {})

StarTree ==
  MkTree(MaxNodes, [i \in NodeIds |-> IF i = 1 THEN Null ELSE 1],
         [i \in NodeIds |-> IF i = 1 THEN "sum" ELSE "input"], {})

LoadTrees == {ChainTree, StarTree}

EditIds == {MaxNodes, AbsentId}
EditValues == {0, 3}
ToggleIds == {2, AbsentId}
SelectIds == {Null, 1}

\* Pins are toggled while the history holds at most one snapshot (before the
\* first edit, between the first two, or after undoing the first); collapse
\* and selection are changed before the first edit.
ShortHistory == Len(undoStack) + Len(redoStack) <= 1

NoHistory == undoStack = <<>> /\ redoStack = <<>>

Init == StoreInit

Next ==
  \/ \E t \in LoadTrees : setNodes(t)
  \/ \E id \in EditIds, v \in EditValues :
       Len(undoStack) < MaxEdits /\ updateNodeValue(id, v)
  \/ \E h \in timers : RippleClear(h)
  \/ \E id \in ToggleIds : ShortHistory /\ togglePin(id)
  \/ \E id \in ToggleIds : NoHistory /\ toggleCollapse(id)
  \/ \E id \in SelectIds : NoHistory /\ selectNode(id)
  \/ undo
  \/ redo

Spec == Init /\ [][Next]_vars

\* ------------------------------------------- the engine on arbitrary trees
Values == {-2, 0, 3}

\* Childless nodes: inputs at even ids, childless product nodes at odd ids.
LeafType(i) == IF i % 2 = 0 THEN "input" ELSE "product"

InitEngine ==
  /\ \E p \in ParentVecs(MaxNodes), ct \in [NodeIds -> ComputeTypes], pin \in SUBSET NodeIds :
       /\ \A i \in NodeIds : IsLeaf(p, i) => ct[i] = LeafType(i)
       /\ nodes = MkTree(MaxNodes, p, ct, pin)
  /\ HistoryInit

NextEngine ==
  \E id \in NodeIds \cup {AbsentId}, v \in Values :
    undoStack = <<>> /\ updateNodeValue(id, v)

SpecEngine == InitEngine /\ [][NextEngine]_vars

\* -------------------------------------------- a long session at the cap
\* A root that sums one input leaf; each edit raises the leaf by one.
CapTree ==
  MkTree(2, [i \in 1..2 |-> i - 1], [i \in 1..2 |-> IF i = 1 THEN "sum" ELSE "input"], {})

CapLeaf == Len(CapTree)

\* In the long session pins, collapse and selection are set before the edits.
NextCap ==
  \/ setNodes(CapTree)
  \/ /\ nodes # <<>>
     /\ nodes[CapLeaf].value - CapTree[CapLeaf].value < MaxCapEdits
     /\ updateNodeValue(CapLeaf, nodes[CapLeaf].value + 1)
  \/ \E h \in timers : RippleClear(h)
  \/ NoHistory /\ togglePin(1)
  \/ NoHistory /\ toggleCollapse(1)
  \/ NoHistory /\ \E id \in {Null, CapLeaf} : selectNode(id)
  \/ undo
  \/ redo

SpecCap == Init /\ [][NextCap]_vars

\* ------------------------------------- view flags around a single edit
\* Pins and collapse are toggled at any time; one edit is made, undone and
\* redone.
NextView ==
  \/ \E t \in LoadTrees : setNodes(t)
  \/ \E id \in EditIds, v \in EditValues : NoHistory /\ updateNodeValue(id, v)
  \/ \E h \in timers : RippleClear(h)
  \/ \E id \in ToggleIds : togglePin(id)
  \/ \E id \in ToggleIds : toggleCollapse(id)
  \/ undo
  \/ redo

SpecView == Init /\ [][NextView]_vars

\* The same steps with the event loop running every pending timeout callback.
SpecRipple == Init /\ [][NextView]_vars /\ WF_vars(\E h \in timers : RippleClear(h))

\* ----------------------------- collapse and edits on arbitrary shapes
\* parentId per node: a smaller id, or an id the collection lacks; node 1 is
\* a root or has such a dangling parentId.
ShapeVecs(n) ==
  {p \in [1..n -> 0..(n + 1)] :
     /\ p[1] \in {Null, n + 1}
     /\ \A i \in 2..n : p[i] \in 1..(i - 1) \cup {n + 1}}

NoneCollapsed == \A i \in DOMAIN nodes : ~nodes[i].collapsed

\* Nodes with children: sums at odd ids, products at even ids.
ShapeType(p, i) ==
  IF IsLeaf(p, i) THEN LeafType(i) ELSE IF i % 2 = 1 THEN "sum" ELSE "product"

InitShape ==
  /\ \E p \in ShapeVecs(MaxNodes), pin \in SUBSET {2} :
       nodes = MkTree(MaxNodes, p, [i \in NodeIds |-> ShapeType(p, i)], pin)
  /\ HistoryInit

\* Nodes are collapsed and expanded before the edit; the edit is made with
\* every node expanded.
NextShape ==
  \/ \E id \in NodeIds \cup {AbsentId} : undoStack = <<>> /\ toggleCollapse(id)
  \/ \E id \in NodeIds, v \in Values :
       undoStack = <<>> /\ NoneCollapsed /\ updateNodeValue(id, v)

SpecShape == InitShape /\ [][NextShape]_vars

\* ------------------------------------------- a pin and unpin scenario
\* root(sum) -> [A(sum), B(input)], A -> [C(input), D(input)].
ScenarioIds == [root |-> 1, A |-> 2, B |-> 3, C |-> 4, D |-> 5]

\* B = 5, C = 2, D = 3; a and r are the values A and root are loaded with.
ScenarioTree(a, r) ==
  LET n   == Cardinality(DOMAIN ScenarioIds)
      p   == <<Null, ScenarioIds.root, ScenarioIds.root, ScenarioIds.A, ScenarioIds.A>>
      ct  == <<"sum", "sum", "input", "input", "input">>
      val == <<r, a, 5, 2, 3>>
  IN [i \in 1..n |-> [MkNode(n, p, ct, {}, i) EXCEPT !.value = val[i]]]

\* The tree is loaded with A and root equal to the sums below them, or stale.
InitScenario ==
  /\ \E a \in {5, 0}, r \in {10, 0} : nodes = ScenarioTree(a, r)
  /\ HistoryInit

NextScenario ==
  \/ \E id \in {ScenarioIds.C, ScenarioIds.D}, v \in {0, 1, 10} :
       Len(undoStack) < MaxScenarioEdits /\ updateNodeValue(id, v)
  \/ togglePin(ScenarioIds.A)

SpecScenario == InitScenario /\ [][NextScenario]_vars

\* ------------------------------------------ the status of a single node
StatusRange == (0 - MaxStatus)..MaxStatus

\* One input node with any target in the range.
InitStatus ==
  /\ \E t \in StatusRange :
       nodes = [i \in {1} |-> [MkNode(1, <<Null>>, <<"input">>, {}, i) EXCEPT !.targetValue = t]]
  /\ HistoryInit

NextStatus == \E v \in StatusRange : undoStack = <<>> /\ updateNodeValue(1, v)

SpecStatus == InitStatus /\ [][NextStatus]_vars

\* ------------------------------------------- a session on node objects
\* A loaded tree: one object per node, no history.
InitHeap ==
  /\ nodes = <<>>
  /\ FieldsInit
  /\ SaveInit
  /\ HookInit
  /\ \E t \in LoadTrees :
       /\ heap = t
       /\ nodesRef = [i \in DOMAIN t |-> i]
  /\ undoStackRef = <<>>
  /\ redoStackRef = <<>>

\* Room for the objects one call allocates.
Room(k) == Len(heap) + k <= MaxObjects

NextHeap ==
  \/ \E id \in EditIds, v \in EditValues :
       Room(Len(nodesRef) + 1) /\ updateNodeValueRef(id, v)
  \/ \E id \in ToggleIds : Room(1) /\ togglePinRef(id)
  \/ \E id \in ToggleIds : Room(1) /\ toggleCollapseRef(id)
  \/ undoRef
  \/ redoRef

SpecHeap == InitHeap /\ [][NextHeap]_vars

\* ------------------------------------------- auto-save under reloads
\* The page loads one tree or the other; saves are sent, succeed or fail.
NextSave ==
  \/ \E t \in LoadTrees : setNodes(t)
  \/ Cardinality(saveTimers) + Len(inFlight) <= MaxInFlight /\ useAutoSave
  \/ \E h \in saveTimers : Len(inFlight) < MaxInFlight /\ doSave(h)
  \/ \E i \in DOMAIN inFlight : doSaveResolved(i)
  \/ \E i \in DOMAIN inFlight : retryCount < MaxRetryCount /\ doSaveRejected(i)

SpecSave == Init /\ [][NextSave]_vars

\* --------------------------------------- edits on a consistent tree
\* Give node i and then the nodes with smaller ids the fold of their
\* children; children have larger ids than their parent.
RECURSIVE FoldDown(_, _)
FoldDown(ns, i) ==
  IF i = 0 THEN ns
  ELSE LET children == {j \in DOMAIN ns : ns[j].parentId = ns[i].id}
           RECURSIVE Sum(_)
           Sum(S) == IF S = {} THEN 0
                     ELSE LET j == CHOOSE k \in S : TRUE IN ns[j].value + Sum(S \ {j})
           RECURSIVE Product(_)
           Product(S) == IF S = {} THEN 1
                         ELSE LET j == CHOOSE k \in S : TRUE IN ns[j].value * Product(S \ {j})
           value == IF children = {} THEN ns[i].value
                    ELSE IF ns[i].computeType = "sum" THEN Sum(children)
                    ELSE IF ns[i].computeType = "product" THEN Product(children)
                    ELSE ns[i].value
       IN FoldDown([ns EXCEPT ![i].value = value], i - 1)

\* A generated tree: no pins, every node with children holds their fold.
InitConsistent ==
  /\ \E p \in ParentVecs(MaxNodes) :
       nodes = FoldDown(MkTree(MaxNodes, p, [i \in NodeIds |-> ShapeType(p, i)], {}), MaxNodes)
  /\ HistoryInit

\* The childless input nodes.
InputLeaves ==
  {nodes[i].id : i \in {j \in DOMAIN nodes :
      nodes[j].computeType = "input" /\ \A k \in DOMAIN nodes : nodes[k].parentId # nodes[j].id}}

NextConsistent ==
  \/ \E id \in InputLeaves, v \in EditValues :
       Len(undoStack) < MaxEdits /\ updateNodeValue(id, v)
  \/ \E id \in ToggleIds : NoHistory /\ toggleCollapse(id)
  \/ undo
  \/ redo

SpecConsistent == InitConsistent /\ [][NextConsistent]_vars

\* ------------------------------------------- deliveries to the webhook
\* Clerk delivers events, some of them more than once and some with a bad
\* signature; the handler's awaits interleave.
InitWebhook == nodes = <<>> /\ HistoryInit

NextWebhook ==
  \/ \E e \in 1..MaxEvents, valid \in BOOLEAN :
       Len(requests) < MaxDeliveries /\ handleClerkWebhook(e, valid)
  \/ \E d \in DOMAIN requests : idempotencyCheck(d)
  \/ \E d \in DOMAIN requests : applyEvent(d)
  \/ \E d \in DOMAIN requests : markProcessed(d)

SpecWebhook == InitWebhook /\ [][NextWebhook]_vars

\* ------------------------------------------------ tree-shape vocabulary
HasNode(ns, id) == \E i \in DOMAIN ns : ns[i].id = id

NodeById(ns, id) == ns[CHOOSE i \in DOMAIN ns : ns[i].id = id]

RECURSIVE StrictAncestors(_, _)
StrictAncestors(ns, id) ==
  IF ~HasNode(ns, id) THEN {}
  ELSE LET p == NodeById(ns, id).parentId
       IN IF p = Null \/ ~HasNode(ns, p) THEN {} ELSE {p} \cup StrictAncestors(ns, p)

PinnedAncestors(ns, id) == {a \in StrictAncestors(ns, id) : NodeById(ns, a).pinned}

\* The nearest pinned strict ancestor of id and everything above it.
HeldIds(ns, id) ==
  {a \in StrictAncestors(ns, id) :
     \E q \in PinnedAncestors(ns, id) : a = q \/ a \in StrictAncestors(ns, q)}

\* The strict ancestors of id below its nearest pinned ancestor.
RecomputedIds(ns, id) == StrictAncestors(ns, id) \ HeldIds(ns, id)

ChildIndexes(ns, id) == {i \in DOMAIN ns : ns[i].parentId = id}

RECURSIVE SumOf(_, _)
SumOf(ns, S) ==
  IF S = {} THEN 0
  ELSE LET i == CHOOSE j \in S : TRUE IN ns[i].value + SumOf(ns, S \ {i})

RECURSIVE ProductOf(_, _)
ProductOf(ns, S) ==
  IF S = {} THEN 1
  ELSE LET i == CHOOSE j \in S : TRUE IN ns[i].value * ProductOf(ns, S \ {i})

CallMade == engineCall # NoCall

\* --------------------------------------------------------------- claims
\* C1: recalculate returns the same nodes in the same number with the same
\* ids; every field but value is kept, and a node whose value differs from the
\* input is a non-pinned strict ancestor of the changed node.
C1_RecalculateFrame ==
  LET in  == engineCall.updatedNodes
      out == engineCall.recalculated
  IN CallMade =>
       /\ Len(out) = Len(in)
       /\ \A i \in DOMAIN in :
            /\ out[i].id = in[i].id
            /\ [out[i] EXCEPT !.value = in[i].value] = in[i]
            /\ out[i].value # in[i].value =>
                 /\ in[i].id \in StrictAncestors(in, engineCall.nodeId)
                 /\ ~in[i].pinned
       /\ (~HasNode(in, engineCall.nodeId) \/ NodeById(in, engineCall.nodeId).parentId = Null)
            => out = in

\* an ancestor of a present changed node was recomputed to a new value while
\* another ancestor is pinned
C1_Witness ==
  LET in  == engineCall.updatedNodes
      out == engineCall.recalculated
  IN /\ CallMade
     /\ \E i \in DOMAIN in : out[i].value # in[i].value
     /\ PinnedAncestors(in, engineCall.nodeId) # {}

\* C2: the nearest pinned strict ancestor of the changed node and every
\* ancestor of it have the same value in recalculate's result as in its input,
\* and the same value in the store's collection after updateNodeValue as before.
C2_EngineHolds ==
  LET in  == engineCall.updatedNodes
      out == engineCall.recalculated
  IN CallMade =>
       \A i \in DOMAIN in :
         in[i].id \in HeldIds(in, engineCall.nodeId) => out[i].value = in[i].value

\* Right after the edit the last snapshot on the undo stack is the collection
\* that was canonical before it.
C2_StoreHolds ==
  (CallMade /\ nodes = engineCall.recalculated /\ Len(undoStack) > 0) =>
    LET before == undoStack[Len(undoStack)]
    IN \A i \in DOMAIN before :
         before[i].id \in HeldIds(before, engineCall.nodeId)
           => nodes[i].value = before[i].value

C2_PinnedAncestorsHold == C2_EngineHolds /\ C2_StoreHolds

\* a node below the pinned ancestor changed, the pinned ancestor has an
\* ancestor of its own, and the pinned sum no longer matches its children
C2_Witness ==
  LET in  == engineCall.updatedNodes
      out == engineCall.recalculated
      id  == engineCall.nodeId
  IN /\ CallMade
     /\ \E i \in DOMAIN in : out[i].value # in[i].value
     /\ \E i \in DOMAIN in :
          /\ in[i].id \in PinnedAncestors(in, id)
          /\ in[i].parentId # Null
          /\ in[i].computeType = "sum"
          /\ out[i].value # SumOf(out, ChildIndexes(out, in[i].id))

\* C3: every recomputed ancestor (a strict ancestor of the changed node below
\* its nearest pinned ancestor) of computeType sum holds the arithmetic sum of
\* its direct children's values in the returned collection.
C3_SumOfChildren ==
  LET in  == engineCall.updatedNodes
      out == engineCall.recalculated
  IN CallMade =>
       \A i \in DOMAIN in :
         (in[i].id \in RecomputedIds(in, engineCall.nodeId) /\ in[i].computeType = "sum")
           => out[i].value = SumOf(out, ChildIndexes(out, in[i].id))

\* a sum grandparent was recomputed from a child that was itself recomputed
\* to a new value, and one of its children is negative
C3_Witness ==
  LET in  == engineCall.updatedNodes
      out == engineCall.recalculated
      rec == RecomputedIds(in, engineCall.nodeId)
  IN /\ CallMade
     /\ \E i, j \in DOMAIN in :
          /\ in[i].id \in rec /\ in[j].id \in rec
          /\ in[j].parentId = in[i].id
          /\ in[i].computeType = "sum"
          /\ out[j].value # in[j].value
          /\ out[i].value # in[i].value
          /\ \E k \in ChildIndexes(out, in[i].id) : out[k].value < 0

\* C4: every recomputed ancestor of computeType product with at least one
\* child holds the product of its direct children's values in the returned
\* collection (0 when the changed child is 0); a sum or product node without
\* children keeps its value.
C4_ProductOfChildren ==
  LET in  == engineCall.updatedNodes
      out == engineCall.recalculated
      id  == engineCall.nodeId
      rec == RecomputedIds(in, id)
  IN CallMade =>
       /\ \A i \in DOMAIN in :
            (in[i].id \in rec /\ in[i].computeType = "product"
               /\ ChildIndexes(in, in[i].id) # {})
              => /\ out[i].value = ProductOf(out, ChildIndexes(out, in[i].id))
                 /\ (\E k \in ChildIndexes(in, in[i].id) : out[k].value = 0)
                      => out[i].value = 0
       /\ \A i \in DOMAIN in :
            (in[i].computeType \in {"sum", "product"} /\ ChildIndexes(in, in[i].id) = {})
              => out[i].value = in[i].value

\* the changed node was set to 0 under a recomputed product parent that held
\* a non-zero value, a sum grandparent was recomputed above it, and the tree
\* has a childless product node
C4_Witness ==
  LET in  == engineCall.updatedNodes
      out == engineCall.recalculated
      id  == engineCall.nodeId
      rec == RecomputedIds(in, id)
  IN /\ CallMade
     /\ HasNode(in, id)
     /\ NodeById(in, id).value = 0
     /\ \E i, j \in DOMAIN in :
          /\ in[i].id = NodeById(in, id).parentId
          /\ in[i].id \in rec /\ in[i].computeType = "product"
          /\ in[i].value # 0 /\ out[i].value = 0
          /\ in[j].id = in[i].parentId
          /\ in[j].id \in rec /\ in[j].computeType = "sum"
          /\ out[j].value # in[j].value
     /\ \E i \in DOMAIN in : in[i].computeType = "product" /\ ChildIndexes(in, in[i].id) = {}

\* A step of updateNodeValue(id, v).  The first conjuncts follow from the
\* action (it records its nodeId and pushes nodes last onto the undo stack);
\* they only discard other steps before the action itself is evaluated.
EditStep(id, v) ==
  /\ engineCall'.nodeId = id
  /\ Len(undoStack') > 0
  /\ undoStack'[Len(undoStack')] = nodes
  /\ updateNodeValue(id, v)

History == [nodes |-> nodes, undoStack |-> undoStack, redoStack |-> redoStack]

\* C5: undo() right after updateNodeValue on a present node makes the
\* collection equal to the one that was canonical before the edit.
C5_UndoRestoresPrior ==
  [][\A id \in EditIds, v \in EditValues :
       (HasNode(nodes, id) /\ EditStep(id, v))
         => undoResult(nodes', undoStack', redoStack').nodes = nodes]_vars

\* an edit of a present node changed the collection and was undone, with an
\* older snapshot still on the undo stack
C5_Witness ==
  /\ CallMade
  /\ HasNode(engineCall.updatedNodes, engineCall.nodeId)
  /\ Len(redoStack) > 0
  /\ redoStack[Len(redoStack)] = engineCall.recalculated
  /\ nodes # engineCall.recalculated
  /\ Len(undoStack) > 0

\* C6: with a non-empty undo stack, undo() followed by redo() restores the
\* collection, the undo stack and the redo stack.
C6_UndoRedoRoundTrip ==
  [][(Len(undoStack) > 0 /\ undo)
       => redoResult(nodes', undoStack', redoStack') = History]_vars

\* an undo has acted and left entries on both stacks
C6_Witness ==
  /\ Len(undoStack) > 0
  /\ Len(redoStack) > 0
  /\ nodes # redoStack[Len(redoStack)]

\* C7: after every updateNodeValue the redo stack is empty (canRedo is
\* false) and a redo() changes neither the collection nor the stacks.
C7_EditClearsRedo ==
  [][\A id \in EditIds, v \in EditValues :
       EditStep(id, v)
         => /\ redoStack' = <<>>
            /\ ~(Len(redoStack') > 0)
            /\ redoResult(nodes', undoStack', redoStack')
                 = [nodes |-> nodes', undoStack |-> undoStack', redoStack |-> redoStack']]_vars

\* the state right after an edit that was made while canRedo held
C7_Witness ==
  /\ CallMade
  /\ engineCall.canRedo
  /\ nodes = engineCall.recalculated
  /\ undoStack # <<>>
  /\ redoStack = <<>>

\* C8: the undo stack never holds more than MAX_UNDO_STACK snapshots.
C8_UndoStackBounded == Len(undoStack) <= MAX_UNDO_STACK

\* the undo stack is full and its oldest snapshot is no longer the loaded tree
C8_Witness ==
  /\ Len(undoStack) = MAX_UNDO_STACK
  /\ undoStack[1][CapLeaf].value > CapTree[CapLeaf].value

\* C9: once the MAX_UNDO_STACK snapshots left after MAX_UNDO_STACK + 1
\* consecutive value-changing edits of a loaded tree have all been undone, a
\* further undo() is a no-op and the canonical collection is the one the first
\* edit produced, not the loaded one.
CapLoaded ==
  [i \in DOMAIN nodes |->
     [CapTree[i] EXCEPT !.pinned = nodes[i].pinned, !.collapsed = nodes[i].collapsed]]

CapAfterFirstEdit ==
  recalculate(SetValue(CapLoaded, CapLeaf, CapTree[CapLeaf].value + 1), CapLeaf)

CapLastEditValue == CapTree[CapLeaf].value + MAX_UNDO_STACK + 1

\* Every undo that can take effect after the last of those edits has.
CapAllUndone ==
  /\ undoStack = <<>>
  /\ Len(redoStack) = MAX_UNDO_STACK
  /\ redoStack[1][CapLeaf].value = CapLastEditValue

C9_OldestSnapshotEvicted ==
  CapAllUndone =>
    /\ undoResult(nodes, undoStack, redoStack) = History
    /\ nodes = CapAfterFirstEdit
    /\ nodes # CapLoaded

\* the 51 edits were made and 50 undos took effect
C9_Witness ==
  /\ CapAllUndone
  /\ nodes[CapLeaf].value = CapTree[CapLeaf].value + 1
  /\ redoStack[MAX_UNDO_STACK][CapLeaf].value = CapTree[CapLeaf].value + 2

\* C10: updateNodeValue with an id that is not in the collection leaves the
\* collection, the undo stack and the redo stack as they were.
C10_AbsentIdNoOp ==
  [][\A id \in EditIds, v \in EditValues :
       (~HasNode(nodes, id) /\ EditStep(id, v))
         => UNCHANGED <<nodes, undoStack, redoStack>>]_vars

\* ---------------------------------------------------------------- C11
\* A step of toggle(id) flips `flag` of the node with that id and nothing else.
FlipsOnly(id, flag) ==
  /\ Len(nodes') = Len(nodes)
  /\ \A i \in DOMAIN nodes :
       /\ DOMAIN nodes'[i] = DOMAIN nodes[i]
       /\ \A f \in DOMAIN nodes[i] :
            nodes'[i][f] # nodes[i][f] => f = flag /\ nodes[i].id = id
       /\ nodes[i].id = id => nodes'[i][flag] = ~nodes[i][flag]
  /\ ~HasNode(nodes, id) => nodes' = nodes
  /\ undoStack' = undoStack
  /\ redoStack' = redoStack
  /\ engineCall' = engineCall
  /\ recalculatingNodeDepths' = recalculatingNodeDepths
  /\ timers' = timers

\* C11: togglePin(nodeId) flips only the pinned flag of that node and
\* toggleCollapse(nodeId) only its collapsed flag; every other field of every
\* node and both stacks are unchanged, nothing is recalculated, and an absent
\* nodeId changes nothing.
C11_TogglesFlipOneFlag ==
  [][\A id \in ToggleIds :
       /\ togglePin(id) => FlipsOnly(id, "pinned")
       /\ toggleCollapse(id) => FlipsOnly(id, "collapsed")]_vars

\* Both flags of node 2 were toggled after an edit pushed a snapshot.
C11_Witness ==
  /\ CallMade
  /\ Len(undoStack) > 0
  /\ Len(nodes) >= 2
  /\ Len(undoStack[Len(undoStack)]) = Len(nodes)
  /\ Len(engineCall.recalculated) = Len(nodes)
  /\ nodes[2].pinned /\ ~undoStack[Len(undoStack)][2].pinned
  /\ nodes[2].collapsed /\ ~undoStack[Len(undoStack)][2].collapsed
  /\ engineCall.recalculated # engineCall.updatedNodes
  /\ \A i \in DOMAIN nodes : nodes[i].value = engineCall.recalculated[i].value

\* ---------------------------------------------------------------- C12
\* What identifies the tree a collection belongs to: ids, parents, compute types.
Skeleton(ns) == [i \in DOMAIN ns |-> <<ns[i].id, ns[i].parentId, ns[i].computeType>>]

StackedCollections ==
  {undoStack[k] : k \in DOMAIN undoStack} \cup {redoStack[k] : k \in DOMAIN redoStack}

\* Whatever undo() or redo() can make canonical belongs to the loaded tree.
HistoryOfLoadedTree == \A s \in StackedCollections : Skeleton(s) = Skeleton(nodes)

\* C12: right after setNodes(t) the canonical collection is t and both stacks
\* are empty (canUndo and canRedo false), and no snapshot of a previously
\* loaded tree stays reachable through undo() or redo().
C12_LoadResetsHistory ==
  /\ [][\A t \in LoadTrees :
          setNodes(t) => /\ nodes' = t
                         /\ undoStack' = <<>> /\ redoStack' = <<>>
                         /\ ~(Len(undoStack') > 0) /\ ~(Len(redoStack') > 0)]_vars
  /\ []HistoryOfLoadedTree

\* A tree was loaded after the other tree had been edited.
C12_Witness ==
  /\ CallMade
  /\ engineCall.updatedNodes # <<>>
  /\ nodes \in LoadTrees
  /\ NoHistory
  /\ Skeleton(engineCall.updatedNodes) # Skeleton(nodes)

\* ---------------------------------------------------------------- C13
canUndo == Len(undoStack) > 0

canRedo == Len(redoStack) > 0

\* C13: undo() is a no-op exactly when canUndo is false and redo() exactly
\* when canRedo is false; a no-op leaves the collection and both stacks as
\* they were; otherwise undo() makes the most recently pushed snapshot
\* canonical, removes it from the undo stack and pushes the previously
\* canonical collection onto the redo stack (redo() symmetrically).
C13_NoOpIffStackEmpty ==
  [][/\ undo => /\ (History' = History) <=> ~canUndo
                 /\ canUndo => /\ nodes' = undoStack[Len(undoStack)]
                                /\ undoStack' = SubSeq(undoStack, 1, Len(undoStack) - 1)
                                /\ redoStack' = redoStack \o <<nodes>>
     /\ redo => /\ (History' = History) <=> ~canRedo
                 /\ canRedo => /\ nodes' = redoStack[Len(redoStack)]
                                /\ redoStack' = SubSeq(redoStack, 1, Len(redoStack) - 1)
                                /\ undoStack' = undoStack \o <<nodes>>]_vars

\* Two edits were undone: undo() is now a no-op, and redo() has two
\* different collections to choose from.
C13_Witness ==
  /\ ~canUndo
  /\ Len(redoStack) = 2
  /\ redoStack[1] # redoStack[2]
  /\ nodes # redoStack[2]

\* ---------------------------------------------------------------- C14
CollapsedAncestors(ns, id) == {a \in StrictAncestors(ns, id) : NodeById(ns, a).collapsed}

\* C14: the visible set holds a node's id exactly if no strict ancestor of
\* the node is collapsed; the node's own flag does not matter, so a root is
\* always visible and the parent of a visible node is visible.
C14_VisibleIffNoCollapsedAncestor ==
  LET visibleIds == useExpandCollapse(nodes)
  IN \A i \in DOMAIN nodes :
       /\ nodes[i].id \in visibleIds <=> CollapsedAncestors(nodes, nodes[i].id) = {}
       /\ nodes[i].parentId = Null => nodes[i].id \in visibleIds
       /\ (nodes[i].id \in visibleIds /\ HasNode(nodes, nodes[i].parentId))
            => nodes[i].parentId \in visibleIds

\* A collapsed root stays visible; its expanded child and its grandchild are
\* hidden.
C14_Witness ==
  \E i, j, k \in DOMAIN nodes :
    /\ nodes[i].parentId = Null /\ nodes[i].collapsed
    /\ nodes[j].parentId = nodes[i].id /\ ~nodes[j].collapsed
    /\ nodes[k].parentId = nodes[j].id
    /\ nodes[i].id \in useExpandCollapse(nodes)
    /\ nodes[j].id \notin useExpandCollapse(nodes)
    /\ nodes[k].id \notin useExpandCollapse(nodes)

\* ---------------------------------------------------------------- C15
\* C15: toggleCollapse(n) changes the visible set only at strict descendants
\* of n: n itself and every node outside n's subtree keep their visibility,
\* and when n has no children the visible set is the same.
C15_CollapseHidesOnlyDescendants ==
  [][\A n \in NodeIds \cup {AbsentId} :
       toggleCollapse(n) =>
         /\ \A i \in DOMAIN nodes :
              n \notin StrictAncestors(nodes, nodes[i].id) =>
                (nodes[i].id \in useExpandCollapse(nodes')
                   <=> nodes[i].id \in useExpandCollapse(nodes))
         /\ ChildIndexes(nodes, n) = {} =>
              useExpandCollapse(nodes') = useExpandCollapse(nodes)]_vars

\* An inner node and a childless node are collapsed: the inner node's child is
\* hidden, everything else (the two collapsed nodes included) is visible.
C15_Witness ==
  \E i, j, k \in DOMAIN nodes :
    /\ nodes[i].collapsed /\ nodes[j].parentId = nodes[i].id
    /\ nodes[k].collapsed /\ ChildIndexes(nodes, nodes[k].id) = {}
    /\ nodes[j].id \notin useExpandCollapse(nodes)
    /\ \A m \in DOMAIN nodes :
         nodes[m].parentId # nodes[i].id => nodes[m].id \in useExpandCollapse(nodes)

\* ---------------------------------------------------------------- C17
\* The chain of parentIds from id ends at an id the collection lacks.
DanglingAbove(ns, id) ==
  \E a \in StrictAncestors(ns, id) \cup {id} :
    /\ HasNode(ns, a)
    /\ NodeById(ns, a).parentId # Null
    /\ ~HasNode(ns, NodeById(ns, a).parentId)

ChildrenFold(ns, node) ==
  IF node.computeType = "sum" THEN SumOf(ns, ChildIndexes(ns, node.id))
  ELSE IF node.computeType = "product" THEN ProductOf(ns, ChildIndexes(ns, node.id))
  ELSE node.value

\* recalculate under a dangling parentId: the ancestors that exist are
\* recomputed from their children, every other node is returned as given.
C17_RecalculateUnderDangling ==
  LET in  == engineCall.updatedNodes
      out == engineCall.recalculated
      id  == engineCall.nodeId
  IN (CallMade /\ DanglingAbove(in, id)) =>
       /\ Len(out) = Len(in)
       /\ \A i \in DOMAIN in :
            IF in[i].id \in RecomputedIds(in, id)
              THEN out[i] = [in[i] EXCEPT !.value = ChildrenFold(out, in[i])]
              ELSE out[i] = in[i]

\* The visible set under a dangling parentId: the missing ancestor counts as
\* not collapsed.
C17_VisibleUnderDangling ==
  \A i \in DOMAIN nodes :
    DanglingAbove(nodes, nodes[i].id) =>
      (nodes[i].id \in useExpandCollapse(nodes)
         <=> \A a \in StrictAncestors(nodes, nodes[i].id) : ~NodeById(nodes, a).collapsed)

\* C17: when the upward walk meets a parentId that names no node of the
\* collection, recalculate ends there: the ancestors below the dangling
\* reference are recomputed as usual and no other node changes; the visible
\* set is computed with the missing ancestor counted as not collapsed.
C17_DanglingParentEndsWalk == C17_RecalculateUnderDangling /\ C17_VisibleUnderDangling

\* An edit below a dangling parentId changed the values of two ancestors, and
\* both the edited node and the ancestor with the dangling parentId are
\* visible.
C17_Witness ==
  LET in  == engineCall.updatedNodes
      out == engineCall.recalculated
      id  == engineCall.nodeId
  IN /\ CallMade
     /\ nodes = out
     /\ DanglingAbove(in, id)
     /\ Cardinality({i \in DOMAIN in : out[i].value # in[i].value /\ in[i].id # id}) >= 2
     /\ id \in useExpandCollapse(nodes)
     /\ \A a \in StrictAncestors(nodes, id) : a \in useExpandCollapse(nodes)

\* ---------------------------------------------------------------- C16
ValueOf(ns, id) == NodeById(ns, id).value

PinnedIds(ns) == {ns[i].id : i \in {j \in DOMAIN ns : ns[j].pinned}}

\* The collection has the scenario's five nodes with these pins and values
\* of the inputs B, C and D.
ScenarioAt(ns, pins, b, c, d) ==
  /\ Len(ns) = Cardinality(DOMAIN ScenarioIds)
  /\ PinnedIds(ns) = pins
  /\ ValueOf(ns, ScenarioIds.B) = b
  /\ ValueOf(ns, ScenarioIds.C) = c
  /\ ValueOf(ns, ScenarioIds.D) = d

Totals(ns, a, r) == ValueOf(ns, ScenarioIds.A) = a /\ ValueOf(ns, ScenarioIds.root) = r

\* C16: with B = 5, C = 2, D = 3: editing D to 10 gives A = 12, root = 17;
\* with A pinned, editing D to 1 leaves A = 12 and root = 17; with A unpinned
\* again, editing C to 0 gives A = 1 and root = 6.
C16_PinScenario ==
  [][/\ (ScenarioAt(nodes, {}, 5, 2, 3) /\ updateNodeValue(ScenarioIds.D, 10))
          => Totals(nodes', 12, 17)
     /\ (ScenarioAt(nodes, {ScenarioIds.A}, 5, 2, 10) /\ Totals(nodes, 12, 17)
            /\ updateNodeValue(ScenarioIds.D, 1))
          => Totals(nodes', 12, 17)
     /\ (ScenarioAt(nodes, {}, 5, 2, 1) /\ Totals(nodes, 12, 17)
            /\ updateNodeValue(ScenarioIds.C, 0))
          => Totals(nodes', 1, 6)]_vars

\* The end of the scenario: the three edits are on the undo stack, made on
\* the loaded tree, on the tree with A pinned, and on the tree with A
\* unpinned again.
C16_Witness ==
  /\ Len(undoStack) = 3
  /\ ScenarioAt(undoStack[1], {}, 5, 2, 3) /\ Totals(undoStack[1], 5, 10)
  /\ ScenarioAt(undoStack[2], {ScenarioIds.A}, 5, 2, 10) /\ Totals(undoStack[2], 12, 17)
  /\ ScenarioAt(undoStack[3], {}, 5, 2, 1) /\ Totals(undoStack[3], 12, 17)
  /\ ScenarioAt(nodes, {}, 5, 0, 1) /\ Totals(nodes, 1, 6)

\* ---------------------------------------------------------------- C19
\* C19: the status of a node is on-track exactly if value >= targetValue,
\* at-risk exactly if value < targetValue and value is at least nine tenths
\* of targetValue, and behind in every other case, for positive, zero and
\* negative targets alike.
C19_StatusThresholds ==
  \A i \in DOMAIN nodes :
    LET v == nodes[i].value
        t == nodes[i].targetValue
        status == getStatus(v, t)
    IN /\ status \in {"on-track", "at-risk", "behind"}
       /\ status = "on-track" <=> v >= t
       /\ status = "at-risk" <=> (v < t /\ 10 * v >= 9 * t)
       /\ status = "behind" <=> (v < t /\ 10 * v < 9 * t)

\* After an edit the node's value is exactly nine tenths of its target.
C19_Witness ==
  /\ CallMade
  /\ \E i \in DOMAIN nodes :
       /\ nodes[i].targetValue = 10
       /\ nodes[i].value = 9
       /\ getStatus(nodes[i].value, nodes[i].targetValue) = "at-risk"

\* ---------------------------------------------------------------- C20
\* C20: at most one ripple-clear timer is pending at any time, and a pending
\* timer is the one the latest edit scheduled: an edit cancels the timer of
\* the edit before it, so the timer of an earlier edit never clears the
\* ripple set of a later one.
C20_OneRippleTimer ==
  /\ Cardinality(timers) <= 1
  /\ timers \subseteq {rippleClearTimer}

\* The second of two edits has its timer pending and its ripple set showing.
C20_Witness ==
  /\ Len(undoStack) = 2
  /\ nodes = engineCall.recalculated
  /\ timers = {rippleClearTimer}
  /\ recalculatingNodeDepths # <<>>

\* ---------------------------------------------------------------- C18
\* The references held by the snapshots on the undo and redo stacks.
SnapshotRefs ==
  UNION ({{undoStackRef[k][i] : i \in DOMAIN undoStackRef[k]} : k \in DOMAIN undoStackRef}
         \cup {{redoStackRef[k][i] : i \in DOMAIN redoStackRef[k]} : k \in DOMAIN redoStackRef})

\* recalculate leaves every object of its input array as it was.
C18_RecalculateKeepsInput ==
  \A id \in EditIds \cup NodeIds :
    LET out == recalculateRef(heap, nodesRef, id)
    IN /\ \A r \in DOMAIN heap : out.heap[r] = heap[r]
       /\ Deref(out.heap, out.nodes) = recalculate(Deref(heap, nodesRef), id)

\* No step changes a field of a node object held by a snapshot that is on a
\* stack before the step or is pushed by it.
C18_SnapshotsKept ==
  [][\A r \in (SnapshotRefs \cup SnapshotRefs') \cap DOMAIN heap : heap'[r] = heap[r]]_vars

\* C18: recalculate never mutates its input, and no store operation mutates
\* a collection in place: once a snapshot is on the undo or redo stack, no
\* later edit, toggle, undo or redo changes any field of any node in it.
C18_NoInPlaceMutation == []C18_RecalculateKeepsInput /\ C18_SnapshotsKept

\* After a snapshot was pushed a flag was toggled: the canonical array
\* shares node objects with the snapshot on top of the undo stack, holds a
\* new object for the toggled node, and the snapshot's object has the flag
\* it was pushed with.  The collection is stale (a sum node differs from the
\* sum of its children), so a recalculation has something to write.
C18_Witness ==
  /\ undoStackRef # <<>>
  /\ LET top == undoStackRef[Len(undoStackRef)]
     IN /\ Len(top) = Len(nodesRef)
        /\ \E i \in DOMAIN nodesRef : nodesRef[i] = top[i]
        /\ \E j \in DOMAIN nodesRef :
             /\ nodesRef[j] # top[j]
             /\ heap[nodesRef[j]].pinned /\ ~heap[top[j]].pinned
  /\ \E i \in DOMAIN nodesRef :
       LET ns == Deref(heap, nodesRef)
       IN ns[i].computeType = "sum" /\ ns[i].value # SumOf(ns, ChildIndexes(ns, ns[i].id))

\* ---------------------------------------------------------------- C21
\* C21: a save that keeps failing is retried three times after the first
\* attempt, so the status is error only after four failed attempts in a row.
C21_ThreeRetriesBeforeError == saveStatus = "error" => failedInRow >= 4

\* ---------------------------------------------------------------- C22
\* Every non-null parentId names a node of the collection.
ParentsPresent(ns) ==
  \A i \in DOMAIN ns : ns[i].parentId = Null \/ HasNode(ns, ns[i].parentId)

\* A node is returned exactly if another node names it as its parent.
BranchIffHasChild(ns) ==
  \A i \in DOMAIN ns :
    ns[i].id \in buildBranchNodeIds(ns)
      <=> \E j \in DOMAIN ns : j # i /\ ns[j].parentId = ns[i].id

SameFlags(before, after) ==
  /\ Len(after) = Len(before)
  /\ \A i \in DOMAIN before :
       /\ after[i].pinned = before[i].pinned
       /\ after[i].collapsed = before[i].collapsed

\* C23: undo() and redo() change node values only: every node's pinned and
\* collapsed flag is the same right after the call as right before it.
C23_UndoRedoKeepFlags ==
  [][(undo \/ redo) => SameFlags(nodes, nodes')]_vars

\* ---------------------------------------------------------------- C24
\* Every sum or product node with at least one child holds the fold of its
\* direct children's values.
Consistent(ns) ==
  \A i \in DOMAIN ns :
    (ns[i].computeType # "input" /\ ChildIndexes(ns, ns[i].id) # {})
      => ns[i].value = ChildrenFold(ns, ns[i])

\* C24: starting from a consistent tree without pins, edits of childless
\* input nodes, toggleCollapse, undo and redo keep the canonical collection
\* consistent.
C24_ConsistencyKept == Consistent(nodes)

\* After edits, an undo and a redo are both possible and the canonical root
\* value differs from the root value of both neighbouring snapshots.
C24_Witness ==
  /\ Len(undoStack) > 0 /\ Len(redoStack) > 0
  /\ nodes[1].value # undoStack[Len(undoStack)][1].value
  /\ nodes[1].value # redoStack[Len(redoStack)][1].value
  /\ \E i \in DOMAIN nodes : nodes[i].collapsed

\* ---------------------------------------------------------------- C25
\* k calls of undo(), and k calls of redo(), on a history record.
RECURSIVE UndoTimes(_, _)
UndoTimes(h, k) ==
  IF k = 0 THEN h ELSE UndoTimes(undoResult(h.nodes, h.undoStack, h.redoStack), k - 1)

RECURSIVE RedoTimes(_, _)
RedoTimes(h, k) ==
  IF k = 0 THEN h ELSE RedoTimes(redoResult(h.nodes, h.undoStack, h.redoStack), k - 1)

StackTotal(h) == Len(h.undoStack) + Len(h.redoStack)

\* The two stacks together hold at most 50 snapshots, and one undo() or one
\* redo() leaves their combined size as it is.
TotalBoundedAndKept ==
  /\ StackTotal(History) <= MAX_UNDO_STACK
  /\ StackTotal(UndoTimes(History, 1)) = StackTotal(History)
  /\ StackTotal(RedoTimes(History, 1)) = StackTotal(History)

\* C25 as stated: the combined size is at most 50 and kept by undo() and
\* redo(), and k undos followed by k redos restore the collection and both
\* stacks, for every k.
C25_AnyUndosThenRedos ==
  /\ TotalBoundedAndKept
  /\ \A k \in 0..MaxRoundTrip : RedoTimes(UndoTimes(History, k), k) = History

\* C25 amended: as stated, for every k up to the length of the undo stack.
C25_UndosThenRedosWithinStack ==
  /\ TotalBoundedAndKept
  /\ \A k \in 0..MaxRoundTrip :
       k <= Len(undoStack) => RedoTimes(UndoTimes(History, k), k) = History

\* The two stacks hold 50 snapshots together, each enough for the longest
\* round trip.
C25_Witness ==
  /\ StackTotal(History) = MAX_UNDO_STACK
  /\ Len(undoStack) >= MaxRoundTrip
  /\ Len(redoStack) >= MaxRoundTrip

RECURSIVE Distance(_, _, _)
Distance(ns, id, a) ==
  LET p == NodeById(ns, id).parentId
  IN IF p = a THEN 1 ELSE 1 + Distance(ns, p, a)

RippleKeys == {recalculatingNodeDepths[i][1] : i \in DOMAIN recalculatingNodeDepths}

\* C28: after updateNodeValue(n, v) the keys of recalculatingNodeDepths are
\* the strict ancestors of n below its nearest pinned ancestor, each once and
\* mapped to its distance from n; every node whose value recalculate changed
\* is a key; the map is empty when n is the root, is absent or has a pinned
\* parent.
C28_RippleIsRecomputedAncestors ==
  (CallMade /\ Len(undoStack) > 0) =>
    LET before == undoStack[Len(undoStack)]
        id     == engineCall.nodeId
        in     == engineCall.updatedNodes
        out    == engineCall.recalculated
    IN /\ RippleKeys = RecomputedIds(before, id)
       /\ Cardinality(RippleKeys) = Len(recalculatingNodeDepths)
       /\ \A i \in DOMAIN recalculatingNodeDepths :
            recalculatingNodeDepths[i][2] = Distance(before, id, recalculatingNodeDepths[i][1])
       /\ \A i \in DOMAIN in : out[i].value # in[i].value => in[i].id \in RippleKeys
       /\ (\/ ~HasNode(before, id)
           \/ NodeById(before, id).parentId = Null
           \/ NodeById(before, NodeById(before, id).parentId).pinned)
            => recalculatingNodeDepths = <<>>

\* the ripple holds the parent and the grandparent of the edited node and
\* stops below a pinned great-grandparent
C28_Witness ==
  /\ CallMade
  /\ Len(undoStack) > 0
  /\ Len(recalculatingNodeDepths) = 2
  /\ recalculatingNodeDepths[2][2] = 2
  /\ PinnedAncestors(nodes, engineCall.nodeId) # {}

\* ---------------------------------------------------------------- C27
\* A step of updateNodeValue.
EditMade == \E id \in EditIds, v \in EditValues : EditStep(id, v)

\* C27: a non-empty ripple set has a clear timer pending, whatever undo,
\* redo, setNodes or toggle calls intervene; an empty ripple set becomes
\* non-empty only by an updateNodeValue; and either edits keep occurring or
\* the ripple set is eventually empty for good.
C27_RippleEventuallyCleared ==
  /\ [](recalculatingNodeDepths # <<>> => timers # {})
  /\ [][(recalculatingNodeDepths = <<>> /\ recalculatingNodeDepths' # <<>>) => EditMade]_vars
  /\ ([]<><<EditMade>>_vars \/ <>[](recalculatingNodeDepths = <<>>))

\* the timer of an edit that showed a ripple has fired, after an undo
C27_Witness ==
  /\ CallMade
  /\ RippleDepths(engineCall.updatedNodes, engineCall.nodeId) # <<>>
  /\ recalculatingNodeDepths = <<>>
  /\ timers = {}
  /\ Len(redoStack) > 0

\* ---------------------------------------------------------------- C29
\* A change the hook has rendered is still waiting for its debounce timer.
ChangeUnsent == timerRef \in saveTimers

\* C29: the status is saved only when the collection of the most recent
\* successful PUT is the collection of the latest render; a PUT that resolves
\* while a newer change is unsent does not set the status to saved; and at
\* most one debounce or retry timer is pending.
C29_SavedMeansCurrentSaved ==
  /\ (saveStatus = "saved" /\ lastPut.done) => lastPut.nodes = latestNodesRef
  /\ (lastPut.done /\ ChangeUnsent) => saveStatus # "saved"
  /\ Cardinality(saveTimers) <= 1

\* ---------------------------------------------------------------- C30
\* C30: each event id is applied to the users table at most once, also when
\* deliveries of one event id are handled concurrently; a delivery of an
\* event id that is already marked processed changes no table and answers
\* 200 with deduplicated true.
C30_EventAppliedAtMostOnce ==
  /\ \A e \in 1..MaxEvents : applied[e] <= 1
  /\ \A d \in DOMAIN requests :
       (requests[d].known /\ requests[d].status # 400) =>
         /\ requests[d].pc \in {"select", "done"}
         /\ requests[d].pc = "done" =>
              (requests[d].status = 200 /\ requests[d].deduplicated)

====
